---- MODULE Spec2Model ----
(***************************************************************************)
(* scaleGeom::Vector<coordDataType, dimension> (Vector.h, Vector.cpp,      *)
(* Core.h): a fixed-size tuple of arithmetic coordinates with indexed      *)
(* access, comparison, component-wise arithmetic, magnitude, normalize     *)
(* and the 3D geometric queries.                                           *)
(*                                                                         *)
(* Numbers.  A coordinate of type int is the integer itself.  A float or   *)
(* double is held as an integer count of 2^-24, so 1.0f is One.  IEEE-754  *)
(* binary32 keeps 24 significant bits: every operation computes the exact  *)
(* result and rounds it to 24 significant bits, ties to even (RoundF).     *)
(* For magnitudes in [1, 128) and for 0 this is binary32 exactly; below    *)
(* 1.0 the grid of 2^-24 is coarser than binary32 (values that are         *)
(* multiples of 2^-24 are still exact).  double keeps 53 bits, so every    *)
(* value of the grid converts to double, and subtracts in double, exactly. *)
(* Products are evaluated without fused multiply-add (the default of the   *)
(* x86-64 and MSVC /fp:precise builds).                                    *)
(***************************************************************************)
EXTENDS Integers, Sequences, FiniteSets, TLC

VARIABLES
    T,          \* template parameter coordDataType: "int" or "float"
    dimension,  \* template parameter dimension
    coords,     \* the receiver's std::array<coordDataType, dimension>, 1-based
    other,      \* the coordinates of the second operand (_other / v2)
    res         \* what the last operation returned or threw

vars == <<T, dimension, coords, other, res>>

\* ---------------------------------------------------------------- constants

DIM2 == 2
DIM3 == 3
X == 0
Y == 1
Z == 2

\* 1.0 in units of 2^-24; 2^24 is also the binary32 significand range.
One == 2^24
\* 2^12, the limb used to multiply two grid values without leaving 32 bits.
Half == 2^12

\* TOLERANCE is 0.0000001 = 1 / TOLERANCE_INV.
TOLERANCE_INV == 10000000

\* size_t arithmetic is modulo 2^w; every index the model converts is far
\* smaller than 2^30 in magnitude, so this modulus separates negative from
\* non-negative arguments exactly as 2^64 does.
SizeTRange == 2^30

Types == {"int", "float"}

\* ------------------------------------------------------------------- bounds

\* Largest dimension instantiated in the container specification.
MaxDim == 3
\* Coordinates and assigned values of the container specification: 0..MaxCoord.
MaxCoord == 1
\* Index arguments range over -IndexSlack .. dimension + IndexSlack.
IndexSlack == 2

\* ------------------------------------------------------------- arithmetic

Abs(n) == IF n < 0 THEN -n ELSE n

Sign(n) == IF n < 0 THEN -1 ELSE 1

\* int -> size_t conversion
ToSizeT(i) == i % SizeTRange

\* The spacing of binary32 values around magnitude a, in units of 2^-24 and
\* never below the grid: the smallest power of two q with a / q < 2^24.
RECURSIVE Ulp(_, _)
Ulp(a, q) == IF a \div q < One THEN q ELSE Ulp(a, 2 * q)

\* Round the exact magnitude a + f to binary32, where f in [0,1) is given by
\* its class frac: 0 (f = 0), 1 (f < 1/2), 2 (f = 1/2), 3 (f > 1/2).
RoundMag(a, frac) ==
    LET q    == Ulp(a, 1)
        lo   == a % q
        base == a - lo
        odd  == (base \div q) % 2 = 1
        up   == IF q = 1
                THEN frac = 3 \/ (frac = 2 /\ odd)
                ELSE 2 * lo > q \/ (2 * lo = q /\ (frac # 0 \/ odd))
    IN  IF up THEN base + q ELSE base

\* Round an exact grid value to binary32.
RoundF(n) == Sign(n) * RoundMag(Abs(n), 0)

\* float + float and float - float
FAdd(a, b) == RoundF(a + b)

FSub(a, b) == RoundF(a - b)

\* The class of the fraction num / den, 0 <= num < den.
FracClass(num, den) ==
    IF num = 0 THEN 0
    ELSE IF 2 * num < den THEN 1
    ELSE IF 2 * num = den THEN 2
    ELSE 3

\* float * float: the exact product a*b / 2^24 from 12-bit limbs, then rounded.
FMul(a, b) ==
    LET A  == Abs(a)
        B  == Abs(b)
        ah == A \div Half
        al == A % Half
        bh == B \div Half
        bl == B % Half
        M  == ah * bl + al * bh
        F  == (M % Half) * Half + al * bl
        n  == ah * bh + M \div Half + F \div One
    IN  Sign(a) * Sign(b) * RoundMag(n, FracClass(F % One, One))

\* Long division: k more quotient bits of r / B appended to q.
RECURSIVE DivBits(_, _, _, _)
DivBits(q, r, B, k) ==
    IF k = 0 THEN <<q, r>>
    ELSE IF 2 * r >= B THEN DivBits(2 * q + 1, 2 * r - B, B, k - 1)
    ELSE DivBits(2 * q, 2 * r, B, k - 1)

\* float / float, b # 0: the exact quotient a * 2^24 / b, then rounded.
FDiv(a, b) ==
    LET A  == Abs(a)
        B  == Abs(b)
        qr == DivBits(A \div B, A % B, B, 24)
    IN  Sign(a) * Sign(b) * RoundMag(qr[1], FracClass(qr[2], B))

\* c * c as the two-limb number <<hi, lo>> = hi * 2^24 + lo.
Square(c) ==
    LET ch == c \div Half
        cl == c % Half
        B2 == 2 * ch * cl
        L  == (B2 % Half) * Half + cl * cl
    IN  <<ch * ch + B2 \div Half + L \div One, L % One>>

\* floor(sqrt(S * 2^24)), one bit at a time from 2^bit downwards.
RECURSIVE SqrtBits(_, _, _)
SqrtBits(S, r, bit) ==
    IF bit < 0 THEN r
    ELSE LET cand == r + 2^bit
             sq   == Square(cand)
         IN  IF sq[1] < S \/ (sq[1] = S /\ sq[2] = 0)
             THEN SqrtBits(S, cand, bit - 1)
             ELSE SqrtBits(S, r, bit - 1)

\* sqrt of a float S >= 0, correctly rounded.  The square root of a binary32
\* value is never half way between two binary32 values, so the fraction is
\* 0 (exact), below 1/2 or above 1/2.
FSqrt(S) ==
    LET r     == SqrtBits(S, 0, 26)
        sq    == Square(r)
        exact == sq[1] = S /\ sq[2] = 0
        \* r*r + r < S * 2^24, i.e. sqrt lies above r + 1/2
        above == sq[1] + (sq[2] + r) \div One < S
    IN  RoundMag(r, IF exact THEN 0 ELSE IF above THEN 3 ELSE 1)

\* coordDataType -> float and coordDataType -> double (exact for the values
\* the model draws)
ToFloat(t, x) == IF t = "int" THEN RoundF(x * One) ELSE x

ToDouble(t, x) == IF t = "int" THEN x * One ELSE x

\* float -> coordDataType: truncation toward zero for int
FromFloat(t, f) == IF t = "int" THEN Sign(f) * (Abs(f) \div One) ELSE f

\* coordDataType * coordDataType, + and - in the coordinate type
TMul(t, a, b) == IF t = "int" THEN a * b ELSE FMul(a, b)

TAdd(t, a, b) == IF t = "int" THEN a + b ELSE FAdd(a, b)

TSub(t, a, b) == IF t = "int" THEN a - b ELSE FSub(a, b)

\* ------------------------------------------------------------------ Core.h

\* Variant of IsEqualD with the fabs left out.
IsEqualDNoFabs(a, b) == a - b <= (One - 1) \div TOLERANCE_INV

\* Variant of IsEqualD with a tolerance of 0.000001, one digit short.
IsEqualDWide(a, b) == Abs(a - b) <= (10 * One - 1) \div TOLERANCE_INV

\* fabs(a - b) < TOLERANCE on doubles a, b of the grid.  a - b is exact in
\* double; d * 2^-24 < 1 / TOLERANCE_INV iff d * TOLERANCE_INV < 2^24 iff
\* d <= (2^24 - 1) div TOLERANCE_INV.
IsEqualD(a, b) == Abs(a - b) <= (One - 1) \div TOLERANCE_INV

\* ---------------------------------------------------------------- Vector.h

\* std::array<coordDataType, dim> coords(elems): aggregate initialisation
\* from a braced list.  More initialisers than elements is ill-formed (the
\* program is rejected); fewer leave the trailing elements value-initialised.
ArrayInit(dim, elems) ==
    IF Len(elems) > dim
    THEN [accepted |-> FALSE, coords |-> <<>>]
    ELSE [accepted |-> TRUE,
          coords   |-> [k \in 1..dim |-> IF k <= Len(elems) THEN elems[k] ELSE 0]]

\* Vector(coordDataType _x, coordDataType _y) : coords({ _x, _y })
VectorXY(dim, _x, _y) == ArrayInit(dim, <<_x, _y>>)

\* Vector(coordDataType _x, coordDataType _y, coordDataType _z) : coords({ _x, _y, _z })
VectorXYZ(dim, _x, _y, _z) == ArrayInit(dim, <<_x, _y, _z>>)

\* Variant of operator[] with the alternative the source leaves in a comment:
\* return coordDataType() instead of throwing.
ElementAtDefault(c, i) ==
    LET _index == ToSizeT(i)
    IN  IF _index >= Len(c)
        THEN [threw |-> FALSE, val |-> 0]
        ELSE [threw |-> FALSE, val |-> c[_index + 1]]

\* coordDataType operator[](size_t _index) const, called with the int i:
\* std::out_of_range and no value, or the coordinate.
ElementAt(c, i) ==
    LET _index == ToSizeT(i)
    IN  IF _index >= Len(c)
        THEN [threw |-> TRUE]
        ELSE [threw |-> FALSE, val |-> c[_index + 1]]

\* Variant of assign with the bound compared on signed values: a negative
\* dim gets through, the write lands outside the array and no coordinate
\* takes the value.
assignSigned(c, dim, value) ==
    IF dim >= Len(c)
    THEN [threw |-> TRUE, coords |-> c]
    ELSE [threw |-> FALSE,
          coords |-> [k \in 1..Len(c) |-> IF k = dim + 1 THEN value ELSE c[k]]]

\* void assign(int dim, coordDataType value).  dim >= dimension compares an
\* int with a size_t, so dim is converted to size_t first.
assign(c, dim, value) ==
    IF ToSizeT(dim) >= Len(c)
    THEN [threw |-> TRUE, coords |-> c]
    ELSE [threw |-> FALSE,
          coords |-> [k \in 1..Len(c) |-> IF k = ToSizeT(dim) + 1 THEN value ELSE c[k]]]

\* bool operator==(const Vector&) const: the loop from coordinate i on.
RECURSIVE EqualFrom(_, _, _, _)
EqualFrom(t, a, b, i) ==
    IF i > Len(a) THEN TRUE
    ELSE IF ~IsEqualD(ToDouble(t, a[i]), ToDouble(t, b[i])) THEN FALSE
    ELSE EqualFrom(t, a, b, i + 1)

Equal(t, a, b) == EqualFrom(t, a, b, 1)

\* bool operator!=(const Vector&) const
NotEqual(t, a, b) == ~Equal(t, a, b)

\* Vector operator+(const Vector&) const
Plus(t, a, b) == [i \in 1..Len(a) |-> TAdd(t, a[i], b[i])]

\* Variant of operator- with the loop body copied from operator+ unchanged.
MinusAdds(t, a, b) == [i \in 1..Len(a) |-> TAdd(t, a[i], b[i])]

\* Vector operator-(const Vector&) const
Minus(t, a, b) == [i \in 1..Len(a) |-> TSub(t, a[i], b[i])]

\* Variant of operator< with the early return taken on > instead of >=.
RECURSIVE LessFromNonStrict(_, _, _)
LessFromNonStrict(a, b, i) ==
    IF i > Len(a) THEN TRUE
    ELSE IF a[i] > b[i] THEN FALSE
    ELSE LessFromNonStrict(a, b, i + 1)

\* bool operator<(const Vector&) const: the loop from coordinate i on.
RECURSIVE LessFrom(_, _, _)
LessFrom(a, b, i) ==
    IF i > Len(a) THEN TRUE
    ELSE IF a[i] >= b[i] THEN FALSE
    ELSE LessFrom(a, b, i + 1)

Less(a, b) == LessFrom(a, b, 1)

\* bool operator>(const Vector&) const: the loop from coordinate i on.
RECURSIVE GreaterFrom(_, _, _)
GreaterFrom(a, b, i) ==
    IF i > Len(a) THEN TRUE
    ELSE IF a[i] <= b[i] THEN FALSE
    ELSE GreaterFrom(a, b, i + 1)

Greater(a, b) == GreaterFrom(a, b, 1)

\* float magnitude() const: result += coords[i] * coords[i], the product in
\* coordDataType, the sum in float; result after coordinates i..dimension.
RECURSIVE SumSquares(_, _, _, _)
SumSquares(t, c, i, result) ==
    IF i > Len(c) THEN result
    ELSE SumSquares(t, c, i + 1, FAdd(result, ToFloat(t, TMul(t, c[i], c[i]))))

magnitude(t, c) == FSqrt(SumSquares(t, c, 1, 0))

\* void normalize(): coords[i] /= mag divides in float and stores the
\* quotient converted back to coordDataType.  Defined for mag # 0.
normalize(t, c) ==
    LET mag == magnitude(t, c)
    IN  [i \in 1..Len(c) |-> FromFloat(t, FDiv(ToFloat(t, c[i]), mag))]

\* coordDataType dotProduct(v1, v2): dotProduct += v1[i] * v2[i] in
\* coordDataType; the sum after coordinates i..dimension.
RECURSIVE DotFrom(_, _, _, _, _)
DotFrom(t, v1, v2, i, acc) ==
    IF i > Len(v1) THEN acc
    ELSE DotFrom(t, v1, v2, i + 1, TAdd(t, acc, TMul(t, v1[i], v2[i])))

dotProduct(t, v1, v2) == DotFrom(t, v1, v2, 1, 0)

\* -------------------------------------------------------------- Vector.cpp

\* Variant of crossProduct3D with the z component summing its two products.
crossProduct3DPlusZ(v1, v2) ==
    LET x == FSub(FMul(v1[Y + 1], v2[Z + 1]), FMul(v1[Z + 1], v2[Y + 1]))
        y == FSub(FMul(v1[Z + 1], v2[X + 1]), FMul(v1[X + 1], v2[Z + 1]))
        z == FAdd(FMul(v1[X + 1], v2[Y + 1]), FMul(v1[Y + 1], v2[X + 1]))
    IN  <<x, y, z>>

\* Variant of crossProduct3D with the x component's second product reading
\* v2[Z] for v2[Y].
crossProduct3DWrongIndex(v1, v2) ==
    LET x == FSub(FMul(v1[Y + 1], v2[Z + 1]), FMul(v1[Z + 1], v2[Z + 1]))
        y == FSub(FMul(v1[Z + 1], v2[X + 1]), FMul(v1[X + 1], v2[Z + 1]))
        z == FSub(FMul(v1[X + 1], v2[Y + 1]), FMul(v1[Y + 1], v2[X + 1]))
    IN  <<x, y, z>>

\* Vector3f crossProduct3D(Vector3f v1, Vector3f v2)
crossProduct3D(v1, v2) ==
    LET x == FSub(FMul(v1[Y + 1], v2[Z + 1]), FMul(v1[Z + 1], v2[Y + 1]))
        y == FSub(FMul(v1[Z + 1], v2[X + 1]), FMul(v1[X + 1], v2[Z + 1]))
        z == FSub(FMul(v1[X + 1], v2[Y + 1]), FMul(v1[Y + 1], v2[X + 1]))
    IN  <<x, y, z>>

\* float scalarTripleProduct(Vector3f v1, Vector3f v2, Vector3f v3)
scalarTripleProduct(v1, v2, v3) == dotProduct("float", crossProduct3D(v1, v2), v3)

\* ------------------------------------------- construction, read, write

\* Coordinate values and index arguments of this specification.
Vals == 0..MaxCoord

IndexArgs == (0 - IndexSlack)..(MaxDim + IndexSlack)

\* A vector after Vector() (coordinates indeterminate) or after
\* Vector(std::array<coordDataType, dimension>).
Init ==
    /\ T \in Types
    /\ dimension \in DIM2..MaxDim
    /\ coords \in [1..dimension -> Vals]
    /\ other = <<>>
    /\ res = [op |-> "init"]

\* Vector<T, dimension> v(_coords)
ConstructArray ==
    \E _coords \in [1..dimension -> Vals] :
        /\ coords' = _coords
        /\ res' = [op |-> "ctor", nargs |-> dimension, accepted |-> TRUE]
        /\ UNCHANGED <<T, dimension, other>>

\* Vector<T, dimension> v(_x, _y)
ConstructXY ==
    \E _x \in Vals, _y \in Vals :
        LET r == VectorXY(dimension, _x, _y)
        IN  /\ coords' = IF r.accepted THEN r.coords ELSE coords
            /\ res' = [op |-> "ctor", nargs |-> 2, accepted |-> r.accepted]
            /\ UNCHANGED <<T, dimension, other>>

\* Vector<T, dimension> v(_x, _y, _z)
ConstructXYZ ==
    \E _x \in Vals, _y \in Vals, _z \in Vals :
        LET r == VectorXYZ(dimension, _x, _y, _z)
        IN  /\ coords' = IF r.accepted THEN r.coords ELSE coords
            /\ res' = [op |-> "ctor", nargs |-> 3, accepted |-> r.accepted]
            /\ UNCHANGED <<T, dimension, other>>

\* v[i]
Index ==
    \E i \in IndexArgs :
        LET r == ElementAt(coords, i)
        IN  /\ res' = [op |-> "index", i |-> i, out |-> r]
            /\ UNCHANGED <<T, dimension, coords, other>>

\* v.assign(i, value)
Assign ==
    \E i \in IndexArgs, value \in Vals :
        LET r == assign(coords, i, value)
        IN  /\ coords' = r.coords
            /\ res' = [op |-> "assign", i |-> i, value |-> value,
                       threw |-> r.threw, pre |-> coords]
            /\ UNCHANGED <<T, dimension, other>>

Next ==
    \/ ConstructArray
    \/ ConstructXY
    \/ ConstructXYZ
    \/ Index
    \/ Assign

Spec == Init /\ [][Next]_vars

\* C1: an indexed read v[i] returns the i-th coordinate when 0 <= i < N and
\* throws, returning nothing, for every other i (i >= N, i = N, i < 0).
IndexedReadContract ==
    res.op = "index" =>
        IF 0 <= res.i /\ res.i < dimension
        THEN ~res.out.threw /\ res.out.val = coords[res.i + 1]
        ELSE res.out.threw /\ "val" \notin DOMAIN res.out

\* A read at i = N has thrown.
IndexedReadWitness ==
    /\ res.op = "index"
    /\ res.i = dimension
    /\ res.out.threw

\* C2: assign(i, x) with i outside [0, N) throws and leaves every coordinate
\* as it was; with 0 <= i < N it sets coordinate i to x and leaves the others.
AssignContract ==
    res.op = "assign" =>
        IF 0 <= res.i /\ res.i < dimension
        THEN /\ ~res.threw
             /\ \A k \in 1..dimension :
                    coords[k] = IF k = res.i + 1 THEN res.value ELSE res.pre[k]
        ELSE res.threw /\ coords = res.pre

\* A negative index was refused after an earlier assign had changed a coordinate.
AssignWitness ==
    /\ res.op = "assign"
    /\ res.i < 0
    /\ res.threw
    /\ \E k \in 1..dimension : coords[k] # 0 /\ res.value # coords[k]

\* C3: a constructor given a number of scalars different from N never yields
\* a vector.
CtorMismatchRejected ==
    (res.op = "ctor" /\ res.nargs # dimension) => ~res.accepted

\* --------------------------------------------- comparison and arithmetic

\* Coordinates of the operands: 0, 1 and 3 are 0, 2^-24 (5.96e-8) and
\* 3 * 2^-24 (1.79e-7) for float, and the integers themselves for int; the
\* fourth value is 4.0f, resp. 4.
OpsVals(t) == IF t = "int" THEN {0, 1, 3, 4} ELSE {0, 1, 3, 4 * One}

\* Two vectors of one type and dimension.
InitOps ==
    /\ T \in Types
    /\ dimension \in {DIM2, DIM3}
    /\ coords \in [1..dimension -> OpsVals(T)]
    /\ other \in [1..dimension -> OpsVals(T)]
    /\ res = [op |-> "init"]

\* v == w, v != w, v < w, v > w on the same pair
Compare ==
    /\ res' = [op |-> "compare",
               eq |-> Equal(T, coords, other),
               ne |-> NotEqual(T, coords, other),
               lt |-> Less(coords, other),
               gt |-> Greater(coords, other)]
    /\ UNCHANGED <<T, dimension, coords, other>>

\* v + w
Add ==
    /\ res' = [op |-> "plus", val |-> Plus(T, coords, other)]
    /\ UNCHANGED <<T, dimension, coords, other>>

\* v - w
Sub ==
    /\ res' = [op |-> "minus", val |-> Minus(T, coords, other)]
    /\ UNCHANGED <<T, dimension, coords, other>>

\* v + w - w
AddSub ==
    /\ res' = [op  |-> "plusminus",
               sum |-> Plus(T, coords, other),
               val |-> Minus(T, Plus(T, coords, other), other)]
    /\ UNCHANGED <<T, dimension, coords, other>>

NextOps ==
    \/ Compare
    \/ Add
    \/ Sub
    \/ AddSub

SpecOps == InitOps /\ [][NextOps]_vars

\* The distance |a - b| of two coordinates in units of 2^-24.
Gap(t, a, b) == IF t = "int" THEN Abs(a - b) * One ELSE Abs(a - b)

\* g * 2^-24 < 1e-7, i.e. g * 10^7 < 2^24 (g < 100 keeps the product in range).
BelowTolerance(g) == g < 100 /\ g * TOLERANCE_INV < One

\* C4: v == w is true iff every coordinate pair differs by less than 1e-7,
\* and v != w is its negation.
EqualityContract ==
    res.op = "compare" =>
        /\ res.eq = (\A i \in 1..dimension : BelowTolerance(Gap(T, coords[i], other[i])))
        /\ res.ne = ~res.eq

\* Two vectors that differ, in both directions, by less than the tolerance
\* compared equal.
EqualityWitness ==
    /\ res.op = "compare"
    /\ res.eq
    /\ \E i \in 1..dimension : coords[i] < other[i]
    /\ \E i \in 1..dimension : coords[i] > other[i]

\* C5: v < w iff every coordinate of v is strictly less than w's, v > w iff
\* every coordinate is strictly greater; with coordinates disagreeing in
\* direction both are false.
OrderingContract ==
    res.op = "compare" =>
        /\ res.lt = (\A i \in 1..dimension : coords[i] < other[i])
        /\ res.gt = (\A i \in 1..dimension : coords[i] > other[i])
        /\ ((\E i \in 1..dimension : coords[i] < other[i]) /\
            (\E j \in 1..dimension : coords[j] > other[j]))
               => (~res.lt /\ ~res.gt)

\* A pair with the first coordinate tied and every other coordinate strictly
\* below compared as not less.
OrderingWitness ==
    /\ res.op = "compare"
    /\ ~res.lt
    /\ coords[1] = other[1]
    /\ \A i \in 2..dimension : coords[i] < other[i]

\* C10 as stated: at most one of v == w, v < w, v > w is true.
ComparisonsExclusive ==
    res.op = "compare" =>
        /\ ~(res.eq /\ res.lt)
        /\ ~(res.eq /\ res.gt)
        /\ ~(res.lt /\ res.gt)

\* C10 amended: v < w and v > w are never both true, and v == w excludes
\* both whenever some coordinate pair is identical or differs by at least
\* 1e-7.
ComparisonsExclusiveApart ==
    res.op = "compare" =>
        /\ ~(res.lt /\ res.gt)
        /\ (\E i \in 1..dimension :
                coords[i] = other[i] \/ ~BelowTolerance(Gap(T, coords[i], other[i])))
             => (~(res.eq /\ res.lt) /\ ~(res.eq /\ res.gt))

\* v < w held, with one coordinate pair closer than the tolerance and
\* another one further apart, and v == w did not.
ComparisonsExclusiveWitness ==
    /\ res.op = "compare"
    /\ res.lt
    /\ ~res.eq
    /\ \E i \in 1..dimension : BelowTolerance(Gap(T, coords[i], other[i]))

\* C6 as stated: (v + w) - w == v for all v, w.
RoundTripEqual ==
    res.op = "plusminus" => Equal(T, res.val, coords)

\* C6 amended: (v + w) - w == v whenever every coordinate sum v[i] + w[i]
\* is exactly representable in the coordinate type.
RoundTripEqualExact ==
    (res.op = "plusminus" /\ \A i \in 1..dimension : res.sum[i] = coords[i] + other[i])
        => Equal(T, res.val, coords)

\* An exact float sum of two non-zero vectors was taken and undone.
RoundTripWitness ==
    /\ res.op = "plusminus"
    /\ T = "float"
    /\ \A i \in 1..dimension :
          coords[i] # 0 /\ other[i] # 0 /\ res.sum[i] = coords[i] + other[i]

\* ------------------------------------------------ magnitude and normalize

\* Coordinates: -4, 0, 3, 4 as int, resp. -4.0f, 0.0f, 3.0f, 4.0f.
NormVals(t) == IF t = "int" THEN {-4, 0, 3, 4} ELSE {-4 * One, 0, 3 * One, 4 * One}

InitNorm ==
    /\ T \in Types
    /\ dimension \in {DIM2, DIM3}
    /\ coords \in [1..dimension -> NormVals(T)]
    /\ other = <<>>
    /\ res = [op |-> "init"]

\* v.magnitude()
Magnitude ==
    /\ res' = [op |-> "magnitude", val |-> magnitude(T, coords)]
    /\ UNCHANGED <<T, dimension, coords, other>>

\* v.normalize() on a vector of non-zero magnitude (the division by a zero
\* magnitude is outside the library's defined behaviour)
Normalize ==
    /\ magnitude(T, coords) # 0
    /\ coords' = normalize(T, coords)
    /\ res' = [op |-> "normalize", pre |-> coords, mag |-> magnitude(T, coords)]
    /\ UNCHANGED <<T, dimension, other>>

NextNorm ==
    \/ Magnitude
    \/ Normalize

SpecNorm == InitNorm /\ [][NextNorm]_vars

\* m is 1.0 to within 2^-21 (four binary32 spacings at 1.0).
ApproxOne(m) == Abs(m - One) <= 8

\* C7: after v.normalize() on a non-zero vector of any coordinate type,
\* v.magnitude() is approximately 1.0.
NormalizedIsUnit ==
    res.op = "normalize" => ApproxOne(magnitude(T, coords))

\* The same for float coordinates alone.
NormalizedFloatIsUnit ==
    (res.op = "normalize" /\ T = "float") => ApproxOne(magnitude(T, coords))

\* (3, 4) of float normalizes to (0.6f, 0.8f).
NormalizedThreeFour ==
    (res.op = "normalize" /\ T = "float" /\ res.pre = <<3 * One, 4 * One>>)
        => coords = <<10066330, 13421773>>

\* ------------------------------------------------------ geometric queries

\* Coordinates of Vector3f operands: 0, 1, 1 + 2^-12 and -(2 + 2^-12); the
\* products of the last two need more than 24 significant bits.
GeomVals == {0, One, One + Half, 0 - (2 * One + Half)}

InitGeom ==
    /\ T = "float"
    /\ dimension = DIM3
    /\ coords \in [1..dimension -> GeomVals]
    /\ other \in [1..dimension -> GeomVals]
    /\ res = [op |-> "init"]

\* crossProduct3D(v, w) and crossProduct3D(w, v)
Cross ==
    /\ res' = [op |-> "cross",
               vw |-> crossProduct3D(coords, other),
               wv |-> crossProduct3D(other, coords)]
    /\ UNCHANGED <<T, dimension, coords, other>>

\* dotProduct(v, w)
Dot ==
    /\ res' = [op |-> "dot", val |-> dotProduct(T, coords, other)]
    /\ UNCHANGED <<T, dimension, coords, other>>

\* scalarTripleProduct(v1, v2, v3), each argument v or w
Triple ==
    \E v1 \in {coords, other}, v2 \in {coords, other}, v3 \in {coords, other} :
        /\ res' = [op |-> "triple", v1 |-> v1, v2 |-> v2, v3 |-> v3,
                   val |-> scalarTripleProduct(v1, v2, v3)]
        /\ UNCHANGED <<T, dimension, coords, other>>

NextGeom ==
    \/ Cross
    \/ Dot
    \/ Triple

SpecGeom == InitGeom /\ [][NextGeom]_vars

\* C8: crossProduct3D(v, w) is the component-wise negation of
\* crossProduct3D(w, v), and crossProduct3D((1,0,0), (0,1,0)) = (0,0,1).
CrossAntiCommutes ==
    res.op = "cross" =>
        /\ \A k \in 1..DIM3 : res.vw[k] = 0 - res.wv[k]
        /\ (coords = <<One, 0, 0>> /\ other = <<0, One, 0>>) => res.vw = <<0, 0, One>>

\* A cross product with no zero component, taken of vectors whose products
\* are rounded.
CrossWitness ==
    /\ res.op = "cross"
    /\ \A k \in 1..DIM3 : res.vw[k] # 0
    /\ One + Half \in {coords[k] : k \in 1..DIM3}
    /\ 0 - (2 * One + Half) \in {other[k] : k \in 1..DIM3}

\* C9: scalarTripleProduct(v, v, w) is approximately 0.
TripleRepeatedIsZero ==
    (res.op = "triple" /\ res.v1 = res.v2) => IsEqualD(res.val, 0)

\* The triple product of a repeated vector with three distinct non-zero
\* coordinates and a third vector without a zero coordinate.
TripleWitness ==
    /\ res.op = "triple"
    /\ res.v1 = res.v2
    /\ res.v1 = <<One, One + Half, 0 - (2 * One + Half)>>
    /\ \A k \in 1..DIM3 : res.v3[k] # 0
    /\ res.v3 # res.v1

====
